---- MODULE Spec2Model ----
(***************************************************************************)
(* Error-Handling Builder: the stage progression engine and the line       *)
(* transforms of the two variants of the widget.                           *)
(*                                                                         *)
(*   strict  variant: src/src/App.jsx       (scoreStage, goNext, reset)    *)
(*   lenient variant: src/unnamed/part_000  (applyThrow, applyCatch,       *)
(*                    applyOptionalOf, canAdvance, next, resetStage,       *)
(*                    resetAll)                                            *)
(*                                                                         *)
(* A line of code is a sequence of characters (one-character strings), so  *)
(* that the regular expressions, trim() and esc() of the source are        *)
(* computed character by character.  The source indexes stages and lines   *)
(* from 0; sequences here are indexed from 1, hence the "+ 1" on every     *)
(* access.  Titles, hints and messages are atomic strings; the em dash of  *)
(* the titles, the typographic apostrophe of the last hint and the emoji   *)
(* of the completion message are written in ASCII.                         *)
(***************************************************************************)
EXTENDS Naturals, Sequences, FiniteSets

VARIABLES
    variant,          \* which file is deployed: "strict" or "lenient"
    stageIdx,         \* useState(0)
    applied,          \* strict: stage key -> (Date.now() -> chosen)
    log,              \* useState([])
    customException,  \* strict: the custom exception name input
    showBest,         \* strict: useState(false)
    now,              \* strict: the last reading of Date.now()
    linesByStage,     \* lenient: stage key -> working lines
    appliedCounts,    \* lenient: stage key -> number
    snippets,         \* the arrays STAGES[i].snippet as they are now, by key
    sharing,          \* lenient: the keys whose working array is the
                      \* snippet array itself, not a copy of it
    lastEvent         \* the handler that ran last

vars == <<variant, stageIdx, applied, log, customException, showBest, now,
          linesByStage, appliedCounts, snippets, sharing, lastEvent>>

----------------------------------------------------------------------------
(* The stage registry.                                                     *)

\* for (Record record : stream) {
Snippet1_1 ==
    <<"f","o","r"," ","(","R","e","c","o","r","d"," ","r","e","c","o","r","d"," ",":"," ","s","t","r","e","a","m",")"," ","{">>
\*     processMessage(record); // may call networkCall()
Snippet1_2 ==
    <<" "," "," "," ","p","r","o","c","e","s","s","M","e","s","s","a","g","e","(","r","e","c","o","r","d",")",";"," ","/","/"," ","m","a","y"," ","c","a","l","l"," ","n","e","t","w","o","r","k","C","a","l","l","(",")">>
\* }
Snippet1_3 ==
    <<"}">>

\* public Optional<User> findByEmail(String email) {
Snippet2_1 ==
    <<"p","u","b","l","i","c"," ","O","p","t","i","o","n","a","l","<","U","s","e","r",">"," ","f","i","n","d","B","y","E","m","a","i","l","(","S","t","r","i","n","g"," ","e","m","a","i","l",")"," ","{">>
\*     // query DB...
Snippet2_2 ==
    <<" "," "," "," ","/","/"," ","q","u","e","r","y"," ","D","B",".",".",".">>
\*     return Optional.empty(); // sometimes; distinguish from DB failure
Snippet2_3 ==
    <<" "," "," "," ","r","e","t","u","r","n"," ","O","p","t","i","o","n","a","l",".","e","m","p","t","y","(",")",";"," ","/","/"," ","s","o","m","e","t","i","m","e","s",";"," ","d","i","s","t","i","n","g","u","i","s","h"," ","f","r","o","m"," ","D","B"," ","f","a","i","l","u","r","e">>
\* }
Snippet2_4 ==
    <<"}">>

\* @GetMapping("/orders/{id}")
Snippet3_1 ==
    <<"@","G","e","t","M","a","p","p","i","n","g","(","\"","/","o","r","d","e","r","s","/","{","i","d","}","\"",")">>
\* public ResponseEntity<?> get(@PathVariable String id) {
Snippet3_2 ==
    <<"p","u","b","l","i","c"," ","R","e","s","p","o","n","s","e","E","n","t","i","t","y","<","?",">"," ","g","e","t","(","@","P","a","t","h","V","a","r","i","a","b","l","e"," ","S","t","r","i","n","g"," ","i","d",")"," ","{">>
\*     return ResponseEntity.ok(service.fetch(id));
Snippet3_3 ==
    <<" "," "," "," ","r","e","t","u","r","n"," ","R","e","s","p","o","n","s","e","E","n","t","i","t","y",".","o","k","(","s","e","r","v","i","c","e",".","f","e","t","c","h","(","i","d",")",")",";">>
\* }
Snippet3_4 ==
    <<"}">>

\* for (String line : lines) {
Snippet4_1 ==
    <<"f","o","r"," ","(","S","t","r","i","n","g"," ","l","i","n","e"," ",":"," ","l","i","n","e","s",")"," ","{">>
\*     Transaction t = parse(line);
Snippet4_2 ==
    <<" "," "," "," ","T","r","a","n","s","a","c","t","i","o","n"," ","t"," ","="," ","p","a","r","s","e","(","l","i","n","e",")",";">>
\*     writer.write(t);
Snippet4_3 ==
    <<" "," "," "," ","w","r","i","t","e","r",".","w","r","i","t","e","(","t",")",";">>
\* }
Snippet4_4 ==
    <<"}">>

\* Response r = http.get("/partner");
Snippet5_1 ==
    <<"R","e","s","p","o","n","s","e"," ","r"," ","="," ","h","t","t","p",".","g","e","t","(","\"","/","p","a","r","t","n","e","r","\"",")",";">>
\* if (r.status() == 200) return r.body();
Snippet5_2 ==
    <<"i","f"," ","(","r",".","s","t","a","t","u","s","(",")"," ","=","="," ","2","0","0",")"," ","r","e","t","u","r","n"," ","r",".","b","o","d","y","(",")",";">>
\* return null; // currently hiding errors
Snippet5_3 ==
    <<"r","e","t","u","r","n"," ","n","u","l","l",";"," ","/","/"," ","c","u","r","r","e","n","t","l","y"," ","h","i","d","i","n","g"," ","e","r","r","o","r","s">>
\* 
Snippet5_4 ==
    <<>>

STAGES ==
    << [key |-> "kafka-loop",
        title |-> "Stage 1 - Streaming loop",
        snippet |-> <<Snippet1_1, Snippet1_2, Snippet1_3>>,
        expectedKeys |-> <<"catch", "throw">>,
        hint |-> "Catch locally to decide skip/retry; throw (translated) so the boundary can act (DLQ/retry)."],
       [key |-> "repo-optional",
        title |-> "Stage 2 - Repository lookup",
        snippet |-> <<Snippet2_1, Snippet2_2, Snippet2_3, Snippet2_4>>,
        expectedKeys |-> <<"opt", "throw">>,
        hint |-> "Use Optional for normal 'not found'; throw on DB/driver errors to signal failure."],
       [key |-> "controller-boundary",
        title |-> "Stage 3 - HTTP boundary",
        snippet |-> <<Snippet3_1, Snippet3_2, Snippet3_3, Snippet3_4>>,
        expectedKeys |-> <<"catch", "throw">>,
        hint |-> "Let exceptions bubble; catch at @ControllerAdvice and map to 404/409/500."],
       [key |-> "batch-skip",
        title |-> "Stage 4 - Batch job (1M rows)",
        snippet |-> <<Snippet4_1, Snippet4_2, Snippet4_3, Snippet4_4>>,
        expectedKeys |-> <<"catch">>,
        hint |-> "Use a skip policy / per-record catch; only throw on critical corruption."],
       [key |-> "upstream-503",
        title |-> "Stage 5 - Upstream 503",
        snippet |-> <<Snippet5_1, Snippet5_2, Snippet5_3, Snippet5_4>>,
        expectedKeys |-> <<"catch", "throw">>,
        hint |-> "Don't return null on outage; retry then throw UpstreamUnavailableException."] >>

\* STAGES.length
NumStages == Len(STAGES)

\* stage.key of every stage
StageKeys == {STAGES[n].key : n \in 1..NumStages}

\* STAGES[i], i counted from 0 as in the source
StageAt(i) == STAGES[i + 1]

\* ACTIONS.map((a) => a.id)
ActionIds == {"throw", "catch", "opt"}

\* useState("UpstreamUnavailableException")
DefaultException == "UpstreamUnavailableException"

----------------------------------------------------------------------------
(* Text of the generated lines, and the words the patterns look for.       *)

\* throw new <span contenteditable="true" class="ce">UpstreamUnavailableException</span>();
ThrowUpstreamText ==
    <<"t","h","r","o","w"," ","n","e","w"," ","<","s","p","a","n"," ","c","o","n","t","e","n","t","e","d","i","t","a","b","l","e","=","\"","t","r","u","e","\""," ","c","l","a","s","s","=","\"","c","e","\"",">","U","p","s","t","r","e","a","m","U","n","a","v","a","i","l","a","b","l","e","E","x","c","e","p","t","i","o","n","<","/","s","p","a","n",">","(",")",";">>
\* throw new <span contenteditable="true" class="ce">CustomDomainException</span>();
ThrowCustomText ==
    <<"t","h","r","o","w"," ","n","e","w"," ","<","s","p","a","n"," ","c","o","n","t","e","n","t","e","d","i","t","a","b","l","e","=","\"","t","r","u","e","\""," ","c","l","a","s","s","=","\"","c","e","\"",">","C","u","s","t","o","m","D","o","m","a","i","n","E","x","c","e","p","t","i","o","n","<","/","s","p","a","n",">","(",")",";">>
\* try {
TryText ==
    <<"t","r","y"," ","{">>
\* } catch (<span contenteditable="true" class="ce">Exception</span> e) {
CatchText ==
    <<"}"," ","c","a","t","c","h"," ","(","<","s","p","a","n"," ","c","o","n","t","e","n","t","e","d","i","t","a","b","l","e","=","\"","t","r","u","e","\""," ","c","l","a","s","s","=","\"","c","e","\"",">","E","x","c","e","p","t","i","o","n","<","/","s","p","a","n",">"," ","e",")"," ","{">>
\* // <span contenteditable="true" class="ce">decide: skip/retry/DLQ/translate</span>
DecideText ==
    <<"/","/"," ","<","s","p","a","n"," ","c","o","n","t","e","n","t","e","d","i","t","a","b","l","e","=","\"","t","r","u","e","\""," ","c","l","a","s","s","=","\"","c","e","\"",">","d","e","c","i","d","e",":"," ","s","k","i","p","/","r","e","t","r","y","/","D","L","Q","/","t","r","a","n","s","l","a","t","e","<","/","s","p","a","n",">">>
\* }
CloseText ==
    <<"}">>
\* return Optional.of(
OptionalOfOpen ==
    <<"r","e","t","u","r","n"," ","O","p","t","i","o","n","a","l",".","o","f","(">>
\* );
OptionalOfClose ==
    <<")",";">>
\* return Optional.of(<span contenteditable="true" class="ce">value</span>);
OptionalSampleText ==
    <<"r","e","t","u","r","n"," ","O","p","t","i","o","n","a","l",".","o","f","(","<","s","p","a","n"," ","c","o","n","t","e","n","t","e","d","i","t","a","b","l","e","=","\"","t","r","u","e","\""," ","c","l","a","s","s","=","\"","c","e","\"",">","v","a","l","u","e","<","/","s","p","a","n",">",")",";">>
\* return
ReturnWord ==
    <<"r","e","t","u","r","n">>
\* null
NullWord ==
    <<"n","u","l","l">>
\* Optional.
OptionalDot ==
    <<"O","p","t","i","o","n","a","l",".">>
\* &amp;
AmpEntity ==
    <<"&","a","m","p",";">>
\* &lt;
LtEntity ==
    <<"&","l","t",";">>
\*     
FourSpaces ==
    <<" "," "," "," ">>

----------------------------------------------------------------------------
(* Strings as the source's String methods and regular expressions see them *)

\* \s of a JavaScript regular expression, and the characters trim() strips
IsSpace(c) == c \in {" ", "\t", "\n", "\r"}

\* . of a JavaScript regular expression: any character but a line terminator
IsDot(c) == c \notin {"\n", "\r"}

\* s.slice(from - 1, to): the characters from..to, empty when to < from
Slice(s, from, to) == IF to < from THEN <<>> ELSE SubSeq(s, from, to)

\* word occurs in s starting at position p
OccursAt(word, s, p) ==
    /\ p >= 1
    /\ p + Len(word) - 1 <= Len(s)
    /\ \A i \in 1..Len(word) : s[p + i - 1] = word[i]

\* the number of whitespace characters of s from position p on
SpaceRun(s, p) ==
    LET stops == {i \in p..Len(s) : ~IsSpace(s[i])}
    IN  IF stops = {} THEN (IF p > Len(s) THEN 0 ELSE Len(s) - p + 1)
        ELSE (CHOOSE i \in stops : \A j \in stops : i <= j) - p

\* (line.match(/^\s*/) || [""])[0]
LeadingSpace(line) == Slice(line, 1, SpaceRun(line, 1))

\* line.trim()
Trim(line) ==
    LET keep == {i \in 1..Len(line) : ~IsSpace(line[i])}
    IN  IF keep = {} THEN <<>>
        ELSE SubSeq(line, CHOOSE i \in keep : \A j \in keep : i <= j,
                          CHOOSE i \in keep : \A j \in keep : i >= j)

\* s.replace(/c/g, entity) for a one-character pattern c
RECURSIVE ReplaceAll(_, _, _)
ReplaceAll(s, c, entity) ==
    IF s = <<>> THEN <<>>
    ELSE (IF Head(s) = c THEN entity ELSE <<Head(s)>>)
         \o ReplaceAll(Tail(s), c, entity)

\* const esc = (s) => s.replace(/&/g, "&amp;").replace(/</g, "&lt;")
esc(s) == ReplaceAll(ReplaceAll(s, "&", AmpEntity), "<", LtEntity)

\* /return\s+null;?/ matched at position p of line: the position of the
\* last character matched, 0 when there is no match at p
ReturnNullEnd(line, p) ==
    LET q == p + Len(ReturnWord)
        r == SpaceRun(line, q)
        e == q + r + Len(NullWord) - 1
    IN  IF OccursAt(ReturnWord, line, p) /\ r >= 1
           /\ OccursAt(NullWord, line, q + r)
        THEN (IF e + 1 <= Len(line) /\ line[e + 1] = ";" THEN e + 1 ELSE e)
        ELSE 0

\* the positions at which /return\s+null;?/ matches
ReturnNullStarts(line) == {p \in 1..Len(line) : ReturnNullEnd(line, p) > 0}

\* /return\s+null;?/.test(line)
IsReturnNull(line) == ReturnNullStarts(line) # {}

\* line.replace(/return\s+null;?/, text): the leftmost match is replaced
ReplaceReturnNull(line, text) ==
    LET starts == ReturnNullStarts(line)
        p == CHOOSE i \in starts : \A j \in starts : i <= j
    IN  IF starts = {} THEN line
        ELSE Slice(line, 1, p - 1) \o text
             \o Slice(line, ReturnNullEnd(line, p) + 1, Len(line))

\* /return\s+(.+);/ matched at position p with \s+ taking k characters and
\* the closing ; at position q
ReturnExprFits(line, p, k, q) ==
    /\ OccursAt(ReturnWord, line, p)
    /\ k >= 1
    /\ k <= SpaceRun(line, p + Len(ReturnWord))
    /\ q <= Len(line)
    /\ q >= p + Len(ReturnWord) + k + 1
    /\ line[q] = ";"
    /\ \A i \in (p + Len(ReturnWord) + k)..(q - 1) : IsDot(line[i])

\* the matches <<p, k, q>> of /return\s+(.+);/ in line
ReturnExprMatches(line) ==
    LET starts == {p \in 1..Len(line) : OccursAt(ReturnWord, line, p)}
        semis  == {q \in 1..Len(line) : line[q] = ";"}
        at(p)  == {m \in {p} \X (1..SpaceRun(line, p + Len(ReturnWord))) \X semis :
                       ReturnExprFits(line, m[1], m[2], m[3])}
    IN  UNION {at(p) : p \in starts}

\* /return\s+.+;/.test(line)
IsReturnExpr(line) == ReturnExprMatches(line) # {}

\* the match the engine reports: leftmost, then \s+ and .+ greedy in turn
ReturnExprMatch(line) ==
    LET ms == ReturnExprMatches(line)
        p  == CHOOSE i \in {m[1] : m \in ms} : \A m \in ms : i <= m[1]
        ks == {m[2] : m \in {n \in ms : n[1] = p}}
        k  == CHOOSE i \in ks : \A j \in ks : i >= j
        qs == {m[3] : m \in {n \in ms : n[1] = p /\ n[2] = k}}
        q  == CHOOSE i \in qs : \A j \in qs : i >= j
    IN  <<p, k, q>>

\* line.replace(/return\s+(.+);/, 'return Optional.of($1);')
ReplaceReturnExpr(line) ==
    LET m == ReturnExprMatch(line)
        a == m[1] + Len(ReturnWord) + m[2]
    IN  IF ~IsReturnExpr(line) THEN line
        ELSE Slice(line, 1, m[1] - 1)
             \o OptionalOfOpen \o Slice(line, a, m[3] - 1) \o OptionalOfClose
             \o Slice(line, m[3] + 1, Len(line))

\* faulty variant of HasOptional: no line is taken to name Optional
HasOptional_Never(line) == FALSE

\* /Optional\./.test(line)
HasOptional(line) == \E p \in 1..Len(line) : OccursAt(OptionalDot, line, p)

----------------------------------------------------------------------------
(* The transforms.  The source edits the array in place; here each returns *)
(* the array as it is after the call.  lineIdx counts from 0.              *)

\* faulty variant of InsertAt: the line goes in one place too early
InsertAt_Before(lines, at, line) ==
    Slice(lines, 1, at - 1) \o <<line>> \o Slice(lines, at, Len(lines))

\* lines.splice(at, 0, line): insert line before the element of index at
InsertAt(lines, at, line) ==
    Slice(lines, 1, at) \o <<line>> \o Slice(lines, at + 1, Len(lines))


\* faulty variant of applyThrow: a return-null line is replaced and the
\* custom throw line is inserted after it as well
applyThrow_ReplaceAndInsert(lines, lineIdx) ==
    LET line == lines[lineIdx + 1]
        indent == LeadingSpace(line) \o FourSpaces
        replaced == [lines EXCEPT ![lineIdx + 1] =
                        ReplaceReturnNull(line, ThrowUpstreamText)]
    IN  InsertAt(replaced, lineIdx + 1, indent \o ThrowCustomText)

applyThrow(lines, lineIdx) ==
    LET line == lines[lineIdx + 1]
        indent == LeadingSpace(line) \o FourSpaces
    IN  IF IsReturnNull(line)
        THEN [lines EXCEPT ![lineIdx + 1] =
                  ReplaceReturnNull(line, ThrowUpstreamText)]
        ELSE InsertAt(lines, lineIdx + 1, indent \o ThrowCustomText)


\* faulty variant of applyCatch: the original text is wrapped as it is,
\* without esc
applyCatch_NoEscape(lines, lineIdx) ==
    LET orig == lines[lineIdx + 1]
        indent == LeadingSpace(orig)
        innerIndent == indent \o FourSpaces
        wrapped == << indent \o TryText,
                      innerIndent \o Trim(orig),
                      indent \o CatchText,
                      innerIndent \o DecideText,
                      indent \o CloseText >>
    IN  Slice(lines, 1, lineIdx) \o wrapped
        \o Slice(lines, lineIdx + 2, Len(lines))

applyCatch(lines, lineIdx) ==
    LET orig == lines[lineIdx + 1]
        indent == LeadingSpace(orig)
        innerIndent == indent \o FourSpaces
        wrapped == << indent \o TryText,
                      innerIndent \o esc(Trim(orig)),
                      indent \o CatchText,
                      innerIndent \o DecideText,
                      indent \o CloseText >>
    IN  Slice(lines, 1, lineIdx) \o wrapped
        \o Slice(lines, lineIdx + 2, Len(lines))

\* faulty variant of applyOptionalOf: the sample line is inserted whatever
\* the target reads
applyOptionalOf_AlwaysInserts(lines, lineIdx) ==
    LET line == lines[lineIdx + 1]
        indent == LeadingSpace(line) \o FourSpaces
    IN  InsertAt(lines, lineIdx + 1, indent \o OptionalSampleText)

applyOptionalOf(lines, lineIdx) ==
    LET line == lines[lineIdx + 1]
        indent == LeadingSpace(line) \o FourSpaces
    IN  IF IsReturnExpr(line) /\ ~HasOptional(line)
        THEN [lines EXCEPT ![lineIdx + 1] = ReplaceReturnExpr(line)]
        ELSE InsertAt(lines, lineIdx + 1, indent \o OptionalSampleText)


\* faulty variant of canAdvance: one applied action is not enough
canAdvance_AtLeastTwo(appliedCount) == appliedCount > 1

\* function canAdvance(appliedCount) { return appliedCount > 0; }
canAdvance(appliedCount) == appliedCount > 0

----------------------------------------------------------------------------
(* State shared by the handlers.                                           *)

\* the empty object {}
EmptyObject == [k \in {} |-> 0]

\* obj[key] || dflt
GetOr(obj, key, dflt) == IF key \in DOMAIN obj THEN obj[key] ELSE dflt

\* { ...obj, [key]: value }
Put(obj, key, value) ==
    [k \in (DOMAIN obj) \cup {key} |-> IF k = key THEN value ELSE obj[k]]

\* const stage = STAGES[stageIdx]
stage == StageAt(stageIdx)

\* faulty variant of SpreadShares: the array is handed on as it is
SpreadShares_NoCopy(isSnippet) == isSnippet

\* [...a] makes a new array with the elements of a.  Whether a is a snippet
\* array of STAGES (isSnippet) or a copy, the new array is never that snippet
\* array itself.
SpreadShares(isSnippet) == FALSE

\* the snippets of STAGES as written in the source, by stage key
TemplateLines ==
    [k \in StageKeys |->
        (CHOOSE s \in {STAGES[n] : n \in 1..NumStages} : s.key = k).snippet]


\* faulty variant of HintForEntry: the stage title is left out
HintForEntry_NoTitle(s) == <<"Hint: ", s.hint>>

\* `Hint for ${stage.title}: ${stage.hint}`
HintForEntry(s) == <<"Hint for ", s.title, ": ", s.hint>>

----------------------------------------------------------------------------
(* Strict variant (src/src/App.jsx).  Only applyAction reads the clock; the *)
(* other handlers say nothing of now.                                      *)

\* actionId === "throw" && customException ? `throw:${customException}` : actionId
Chosen(actionId) ==
    IF actionId = "throw" /\ customException # ""
    THEN <<"throw", ":", customException>>
    ELSE <<actionId>>

\* u === id || (typeof u === "string" && u.startsWith(`${id}:`))
Matches(u, id) == u = <<id>> \/ (Len(u) >= 2 /\ u[1] = id /\ u[2] = ":")

\* `Applied ${actionId === "throw" ? `Throw(${customException})` : actionId} to ${stage.title}`
AppliedEntry(actionId, name, title) ==
    IF actionId = "throw"
    THEN <<"Applied ", "Throw(", name, ")", " to ", title>>
    ELSE <<"Applied ", actionId, " to ", title>>

\* t is the reading Date.now() returns during the call
applyAction(actionId, t) ==
    LET chosen == Chosen(actionId)
        nextRecord == Put(GetOr(applied, stage.key, EmptyObject), t, chosen)
    IN  /\ applied' = Put(applied, stage.key, nextRecord)
        /\ log' = Append(log, AppliedEntry(actionId, customException, stage.title))
        /\ now' = t
        /\ lastEvent' = "applyAction"
        /\ UNCHANGED <<variant, snippets, sharing, stageIdx, customException, showBest,
                       linesByStage, appliedCounts>>

scoreStage(s) ==
    LET record == GetOr(applied, s.key, EmptyObject)
        has(id) == \E t \in DOMAIN record : Matches(record[t], id)
        needed == s.expectedKeys
    IN  [ok     |-> \A n \in 1..Len(needed) : has(needed[n]),
         used   |-> Cardinality(DOMAIN record),
         extras |-> Cardinality({t \in DOMAIN record :
                        ~\E n \in 1..Len(needed) : Matches(record[t], needed[n])})]


\* faulty variant of goNext: the score of the stage is not looked at
goNext_IgnoresScore ==
    /\ IF stageIdx < NumStages - 1
       THEN /\ stageIdx' = stageIdx + 1
            /\ UNCHANGED <<log, showBest>>
       ELSE /\ showBest' = TRUE
            /\ UNCHANGED <<stageIdx, log>>
    /\ lastEvent' = "goNext"
    /\ UNCHANGED <<variant, snippets, sharing, applied, customException, linesByStage,
                   appliedCounts>>

\* faulty variant of goNext: the reference solution is revealed as soon as
\* any stage is passed
goNext_RevealsEarly ==
    /\ IF ~scoreStage(stage).ok
       THEN /\ log' = Append(log, HintForEntry(stage))
            /\ UNCHANGED <<stageIdx, showBest>>
       ELSE IF stageIdx < NumStages - 1
       THEN /\ stageIdx' = stageIdx + 1
            /\ showBest' = TRUE
            /\ UNCHANGED log
       ELSE /\ showBest' = TRUE
            /\ UNCHANGED <<stageIdx, log>>
    /\ lastEvent' = "goNext"
    /\ UNCHANGED <<variant, snippets, sharing, applied, customException, linesByStage,
                   appliedCounts>>

\* faulty variant of goNext: passing the last stage also writes to the log
goNext_LogsOnReveal ==
    /\ IF ~scoreStage(stage).ok
       THEN /\ log' = Append(log, HintForEntry(stage))
            /\ UNCHANGED <<stageIdx, showBest>>
       ELSE IF stageIdx < NumStages - 1
       THEN /\ stageIdx' = stageIdx + 1
            /\ UNCHANGED <<log, showBest>>
       ELSE /\ showBest' = TRUE
            /\ log' = Append(log, <<"Done">>)
            /\ UNCHANGED stageIdx
    /\ lastEvent' = "goNext"
    /\ UNCHANGED <<variant, snippets, sharing, applied, customException, linesByStage,
                   appliedCounts>>

goNext ==
    /\ IF ~scoreStage(stage).ok
       THEN /\ log' = Append(log, HintForEntry(stage))
            /\ UNCHANGED <<stageIdx, showBest>>
       ELSE IF stageIdx < NumStages - 1
       THEN /\ stageIdx' = stageIdx + 1
            /\ UNCHANGED <<log, showBest>>
       ELSE /\ showBest' = TRUE
            /\ UNCHANGED <<stageIdx, log>>
    /\ lastEvent' = "goNext"
    /\ UNCHANGED <<variant, snippets, sharing, applied, customException, linesByStage,
                   appliedCounts>>

reset ==
    /\ stageIdx' = 0
    /\ applied' = EmptyObject
    /\ log' = <<>>
    /\ showBest' = FALSE
    /\ lastEvent' = "reset"
    /\ UNCHANGED <<variant, snippets, sharing, customException, linesByStage, appliedCounts>>

\* faulty variant of needHint: asking for the hint costs the recorded actions
needHint_Forgets ==
    /\ log' = Append(log, <<"Hint: ", stage.hint>>)
    /\ applied' = EmptyObject
    /\ lastEvent' = "needHint"
    /\ UNCHANGED <<variant, snippets, sharing, stageIdx, customException, showBest,
                   linesByStage, appliedCounts>>

\* onClick={() => setLog((l) => [...l, `Hint: ${stage.hint}`])}
needHint ==
    /\ log' = Append(log, <<"Hint: ", stage.hint>>)
    /\ lastEvent' = "needHint"
    /\ UNCHANGED <<variant, snippets, sharing, stageIdx, applied, customException, showBest,
                   linesByStage, appliedCounts>>

\* onChange={(e) => setCustomException(e.target.value)}
setCustomException(value) ==
    /\ customException' = value
    /\ lastEvent' = "setCustomException"
    /\ UNCHANGED <<variant, snippets, sharing, stageIdx, applied, log, showBest,
                   linesByStage, appliedCounts>>

----------------------------------------------------------------------------
(* Lenient variant (src/unnamed/part_000).                                 *)

\* const lines = linesByStage[stage.key]
lines == linesByStage[stage.key]

\* the transform applyActionAt dispatches to; any other id edits nothing
Transformed(actionId, working, idx) ==
    IF actionId = "throw" THEN applyThrow(working, idx)
    ELSE IF actionId = "catch" THEN applyCatch(working, idx)
    ELSE IF actionId = "opt" THEN applyOptionalOf(working, idx)
    ELSE working

\* faulty variant of applyActionAt: the drop is not counted
applyActionAt_NotCounted(actionId, idx) ==
    /\ linesByStage' = Put(linesByStage, stage.key,
                           Transformed(actionId, lines, idx))
    /\ snippets' = IF SpreadShares(stage.key \in sharing)
                   THEN Put(snippets, stage.key,
                            Transformed(actionId, lines, idx))
                   ELSE snippets
    /\ sharing' = IF SpreadShares(stage.key \in sharing)
                  THEN sharing ELSE sharing \ {stage.key}
    /\ log' = Append(log, <<"Applied ", actionId, " to line ", idx + 1,
                           " in ", stage.title>>)
    /\ lastEvent' = "applyActionAt"
    /\ UNCHANGED <<variant, stageIdx, applied, appliedCounts, customException,
                   showBest, now>>

\* faulty variant of applyActionAt: the edits of the other stages are not
\* carried over
applyActionAt_OthersForgotten(actionId, idx) ==
    LET count == GetOr(appliedCounts, stage.key, 0) + 1
    IN  /\ linesByStage' = Put(TemplateLines, stage.key,
                               Transformed(actionId, lines, idx))
        /\ appliedCounts' = Put(appliedCounts, stage.key, count)
        /\ log' = Append(log, <<"Applied ", actionId, " to line ", idx + 1,
                               " in ", stage.title>>)
        /\ snippets' = IF SpreadShares(stage.key \in sharing)
                       THEN Put(snippets, stage.key,
                                Transformed(actionId, lines, idx))
                       ELSE snippets
        /\ sharing' = IF SpreadShares(stage.key \in sharing)
                      THEN sharing ELSE sharing \ {stage.key}
        /\ lastEvent' = "applyActionAt"
        /\ UNCHANGED <<variant, stageIdx, applied, customException, showBest,
                       now>>

applyActionAt(actionId, idx) ==
    LET count == GetOr(appliedCounts, stage.key, 0) + 1
    IN  /\ linesByStage' = Put(linesByStage, stage.key,
                               Transformed(actionId, lines, idx))
        /\ appliedCounts' = Put(appliedCounts, stage.key, count)
        /\ log' = Append(log, <<"Applied ", actionId, " to line ", idx + 1,
                               " in ", stage.title>>)
        /\ snippets' = IF SpreadShares(stage.key \in sharing)
                       THEN Put(snippets, stage.key,
                                Transformed(actionId, lines, idx))
                       ELSE snippets
        /\ sharing' = IF SpreadShares(stage.key \in sharing)
                      THEN sharing ELSE sharing \ {stage.key}
        /\ lastEvent' = "applyActionAt"
        /\ UNCHANGED <<variant, stageIdx, applied, customException, showBest,
                       now>>

\* the message next appends on the last stage
DoneEntry ==
    <<"Reached the end. Open the 'Best Practice Outcome' in the README or compare with your code changes.">>


\* faulty variant of next: the index grows on the last stage too
next_NoLastGuard ==
    LET count == GetOr(appliedCounts, stage.key, 0)
    IN  /\ IF ~canAdvance(count)
           THEN /\ log' = Append(log, HintForEntry(stage))
                /\ UNCHANGED stageIdx
           ELSE /\ stageIdx' = stageIdx + 1
                /\ UNCHANGED log
        /\ lastEvent' = "next"
        /\ UNCHANGED <<variant, snippets, sharing, applied, customException, showBest, now,
                       linesByStage, appliedCounts>>

\* faulty variant of next: a granted request skips a stage where it can
next_SkipsStage ==
    LET count == GetOr(appliedCounts, stage.key, 0)
    IN  /\ IF ~canAdvance(count)
           THEN /\ log' = Append(log, HintForEntry(stage))
                /\ UNCHANGED stageIdx
           ELSE IF stageIdx < NumStages - 2
           THEN /\ stageIdx' = stageIdx + 2
                /\ UNCHANGED log
           ELSE IF stageIdx < NumStages - 1
           THEN /\ stageIdx' = stageIdx + 1
                /\ UNCHANGED log
           ELSE /\ log' = Append(log, DoneEntry)
                /\ UNCHANGED stageIdx
        /\ lastEvent' = "next"
        /\ UNCHANGED <<variant, snippets, sharing, applied, customException, showBest, now,
                       linesByStage, appliedCounts>>

next ==
    LET count == GetOr(appliedCounts, stage.key, 0)
    IN  /\ IF ~canAdvance(count)
           THEN /\ log' = Append(log, HintForEntry(stage))
                /\ UNCHANGED stageIdx
           ELSE IF stageIdx < NumStages - 1
           THEN /\ stageIdx' = stageIdx + 1
                /\ UNCHANGED log
           ELSE /\ log' = Append(log, DoneEntry)
                /\ UNCHANGED stageIdx
        /\ lastEvent' = "next"
        /\ UNCHANGED <<variant, snippets, sharing, applied, customException, showBest, now,
                       linesByStage, appliedCounts>>

\* faulty variant of resetStage: the log is emptied with the stage
resetStage_EmptiesLog ==
    /\ linesByStage' = Put(linesByStage, stage.key,
                           snippets[StageAt(stageIdx).key])
    /\ sharing' = IF SpreadShares(TRUE)
                  THEN sharing \cup {stage.key} ELSE sharing \ {stage.key}
    /\ snippets' = snippets
    /\ appliedCounts' = Put(appliedCounts, stage.key, 0)
    /\ log' = <<>>
    /\ lastEvent' = "resetStage"
    /\ UNCHANGED <<variant, stageIdx, applied, customException, showBest, now>>

\* faulty variant of resetStage: the counts of all stages are dropped
resetStage_ClearsAllCounts ==
    /\ linesByStage' = Put(linesByStage, stage.key,
                           snippets[StageAt(stageIdx).key])
    /\ sharing' = IF SpreadShares(TRUE)
                  THEN sharing \cup {stage.key} ELSE sharing \ {stage.key}
    /\ snippets' = snippets
    /\ appliedCounts' = EmptyObject
    /\ log' = Append(log, <<"Reset ", stage.title>>)
    /\ lastEvent' = "resetStage"
    /\ UNCHANGED <<variant, stageIdx, applied, customException, showBest, now>>

resetStage ==
    /\ linesByStage' = Put(linesByStage, stage.key,
                           snippets[StageAt(stageIdx).key])
    /\ sharing' = IF SpreadShares(TRUE)
                  THEN sharing \cup {stage.key} ELSE sharing \ {stage.key}
    /\ snippets' = snippets
    /\ appliedCounts' = Put(appliedCounts, stage.key, 0)
    /\ log' = Append(log, <<"Reset ", stage.title>>)
    /\ lastEvent' = "resetStage"
    /\ UNCHANGED <<variant, stageIdx, applied, customException, showBest, now>>


\* faulty variant of resetAll: the applied counts survive the restart
resetAll_KeepsCounts ==
    /\ stageIdx' = 0
    /\ linesByStage' = snippets
    /\ sharing' = IF SpreadShares(TRUE) THEN StageKeys ELSE {}
    /\ snippets' = snippets
    /\ log' = <<>>
    /\ lastEvent' = "resetAll"
    /\ UNCHANGED <<variant, applied, customException, showBest, now,
                   appliedCounts>>

resetAll ==
    /\ stageIdx' = 0
    /\ linesByStage' = snippets
    /\ sharing' = IF SpreadShares(TRUE) THEN StageKeys ELSE {}
    /\ snippets' = snippets
    /\ appliedCounts' = EmptyObject
    /\ log' = <<>>
    /\ lastEvent' = "resetAll"
    /\ UNCHANGED <<variant, applied, customException, showBest, now>>

----------------------------------------------------------------------------
(* The sessions explored.  The handlers above take what the browser hands  *)
(* them; the definitions below choose the events.                          *)

\* most log entries written while one stage is active
MaxStageLog == 3

\* text/plain of a drop: the id of an action pill, or any other dragged text
DropIds == ActionIds \cup {"bogus"}

\* what the user types into the custom exception name input
ExceptionNames == {DefaultException, ""}

\* the log entry e was written while stage s was active
EntryOf(e, s) ==
    \/ e[1] = "Applied " /\ e[Len(e)] = s.title
    \/ e[1] = "Reset " /\ e[2] = s.title
    \/ e[1] = "Hint for " /\ e[2] = s.title
    \/ e[1] = "Hint: " /\ e[2] = s.hint
    \/ e = DoneEntry /\ s = StageAt(NumStages - 1)

\* the entries written while the active stage was active
StageLog ==
    LET Mine(e) == EntryOf(e, stage)
    IN  SelectSeq(log, Mine)

\* the log has room for one more entry of the active stage
Room == Len(StageLog) < MaxStageLog

\* The reference walk passes every stage with the fewest drops: the strict
\* variant drops each expected action once, in order, at distinct instants
\* and under the default exception name; the lenient variant drops the first
\* recommended action on the first line.
RefEntries(s) ==
    IF variant = "strict"
    THEN [n \in 1..Len(s.expectedKeys) |->
             AppliedEntry(s.expectedKeys[n], DefaultException, s.title)]
    ELSE << <<"Applied ", s.expectedKeys[1], " to line ", 1, " in ", s.title>> >>

\* the log of the reference walk on arriving at stage k
RECURSIVE RefLog(_)
RefLog(k) == IF k = 0 THEN <<>> ELSE RefLog(k - 1) \o RefEntries(StageAt(k - 1))

\* A stage is edited only if every earlier stage was passed as the reference
\* walk passes it; the active stage is then edited freely.
FreeMode ==
    LET Earlier(e) == ~EntryOf(e, stage)
    IN  SelectSeq(log, Earlier) = RefLog(stageIdx)

Init ==
    /\ variant \in {"strict", "lenient"}
    /\ stageIdx = 0
    /\ applied = EmptyObject
    /\ log = <<>>
    /\ customException = DefaultException
    /\ showBest = FALSE
    /\ now = 0
    /\ snippets = TemplateLines
    /\ sharing = IF variant = "lenient" /\ SpreadShares(TRUE)
                 THEN StageKeys ELSE {}
    /\ linesByStage = IF variant = "lenient" THEN snippets ELSE EmptyObject
    /\ appliedCounts = EmptyObject
    /\ lastEvent = "init"

\* Date.now() returns the reading of the previous drop again, or a later
\* one.  A later reading is told apart from the previous one only if the
\* previous one is a key of the active stage's record.
Readings ==
    IF now \in DOMAIN GetOr(applied, stage.key, EmptyObject)
    THEN {now, now + 1}
    ELSE {now}

StrictDrop ==
    /\ variant = "strict"
    /\ FreeMode /\ Room
    /\ \E actionId \in DropIds, t \in Readings : applyAction(actionId, t)

StrictNext ==
    /\ variant = "strict"
    /\ FreeMode
    /\ scoreStage(stage).ok \/ Room
    /\ goNext
    /\ UNCHANGED now

StrictHint ==
    /\ variant = "strict"
    /\ FreeMode /\ Room
    /\ needHint
    /\ UNCHANGED now

\* Readings are counted from the last Restart: reset empties every record,
\* so no reading made before it is compared with a later one.
StrictReset ==
    /\ variant = "strict"
    /\ reset
    /\ now' = 0

StrictType ==
    /\ variant = "strict"
    /\ FreeMode
    /\ \E value \in ExceptionNames \ {customException} : setCustomException(value)
    /\ UNCHANGED now

\* the lines a drop lands on: the first, the second and the last line
DropLines == {i \in {0, 1, Len(lines) - 1} : i < Len(lines)}

LenientDrop ==
    /\ variant = "lenient"
    /\ FreeMode /\ Room
    /\ \E actionId \in DropIds, idx \in DropLines : applyActionAt(actionId, idx)

LenientNext ==
    /\ variant = "lenient"
    /\ FreeMode
    /\ (canAdvance(GetOr(appliedCounts, stage.key, 0)) /\ stageIdx < NumStages - 1)
       \/ Room
    /\ next

LenientResetStage ==
    /\ variant = "lenient"
    /\ FreeMode /\ Room
    /\ resetStage

LenientResetAll ==
    /\ variant = "lenient"
    /\ resetAll

Next ==
    \/ StrictDrop
    \/ StrictNext
    \/ StrictHint
    \/ StrictReset
    \/ StrictType
    \/ LenientDrop
    \/ LenientNext
    \/ LenientResetStage
    \/ LenientResetAll

Spec == Init /\ [][Next]_vars

----------------------------------------------------------------------------
(* The transforms alone: every action dropped on every line of every       *)
(* template, and of what the transforms make of it.                        *)

\* Lines no template holds, for the cases of the patterns the templates
\* leave out: no semicolon, two occurrences, characters esc rewrites, an
\* empty expression, a statement before and after, a tab, a wrapped value.
\*   return null
Probe1 ==
    <<" "," ","r","e","t","u","r","n"," ","n","u","l","l">>
\* return  null;return null;
Probe2 ==
    <<"r","e","t","u","r","n"," "," ","n","u","l","l",";","r","e","t","u","r","n"," ","n","u","l","l",";">>
\* return a & b < c;
Probe3 ==
    <<"r","e","t","u","r","n"," ","a"," ","&"," ","b"," ","<"," ","c",";">>
\* return;
Probe4 ==
    <<"r","e","t","u","r","n",";">>
\* x = 1; return y; z;
Probe5 ==
    <<"x"," ","="," ","1",";"," ","r","e","t","u","r","n"," ","y",";"," ","z",";">>
\* <tab>return null ;
Probe6 ==
    <<"\t","r","e","t","u","r","n"," ","n","u","l","l"," ",";">>
\* return Optional.of(v);
Probe7 ==
    <<"r","e","t","u","r","n"," ","O","p","t","i","o","n","a","l",".","o","f","(","v",")",";">>

ProbeLines == <<Probe1, Probe2, Probe3, Probe4, Probe5, Probe6, Probe7>>

\* most transforms applied in a row
MaxDepth == 2

InitTransform ==
    /\ variant = "lenient"
    /\ stageIdx \in 0..(NumStages - 1)
    /\ applied = EmptyObject
    /\ log = <<>>
    /\ customException = DefaultException
    /\ showBest = FALSE
    /\ now = 0
    /\ snippets = TemplateLines
    /\ sharing = {}
    /\ linesByStage \in {TemplateLines, Put(TemplateLines, stage.key, ProbeLines)}
    /\ appliedCounts = EmptyObject
    /\ lastEvent = "init"

TransformDrop ==
    /\ Len(log) < MaxDepth
    /\ \E actionId \in DropIds, idx \in 0..(Len(lines) - 1) :
          applyActionAt(actionId, idx)

SpecTransform == InitTransform /\ [][TransformDrop]_vars

----------------------------------------------------------------------------
(* What the claims speak of.                                               *)

\* the last entry of a non-empty log
LastOf(s) == s[Len(s)]

\* the kind of the action a log entry reports as applied
KindOf(e) == IF e[2] = "Throw(" THEN "throw" ELSE e[2]

\* the kinds of the actions applied to stage s since the last Restart
KindsApplied(s) ==
    {KindOf(log[n]) : n \in {m \in 1..Len(log) :
                               log[m][1] = "Applied " /\ EntryOf(log[m], s)}}

\* every expected kind of stage s was applied to it
ExpectedApplied(s) ==
    \A n \in 1..Len(s.expectedKeys) : s.expectedKeys[n] \in KindsApplied(s)

\* the advancement condition of the active stage, as the deployed variant
\* computes it
AdvanceAllowed ==
    IF variant = "strict"
    THEN scoreStage(stage).ok
    ELSE canAdvance(GetOr(appliedCounts, stage.key, 0))

\* the step is a Next request
NextRequested == lastEvent' \in {"goNext", "next"}

\* the step is a Restart
RestartRequested == lastEvent' \in {"reset", "resetAll"}

\* the last stage is the active one
OnLastStage == stageIdx = NumStages - 1

----------------------------------------------------------------------------
\* C1 (as claimed): under the strict policy scoreStage(s).ok is true if and
\* only if the kinds of the actions applied to stage s since the last reset
\* include every expected kind of s.  The code falsifies it: two drops that
\* read the same Date.now() share a key, and the later replaces the earlier.
C1_OkIffExpectedKindsApplied ==
    variant = "strict" =>
        \A n \in 1..NumStages :
            scoreStage(STAGES[n]).ok <=> ExpectedApplied(STAGES[n])

----------------------------------------------------------------------------
\* C2: a Next request made while the advancement condition of the active
\* stage is false leaves the stage index, the working lines, the applied
\* action records and the reveal flag as they are, and appends exactly one
\* entry, "Hint for <title>: <hint>" of the active stage, to the log.
C2_RefusedNextOnlyLogsHint ==
    [][(NextRequested /\ ~AdvanceAllowed) =>
          /\ stageIdx' = stageIdx
          /\ linesByStage' = linesByStage
          /\ applied' = applied
          /\ appliedCounts' = appliedCounts
          /\ showBest' = showBest
          /\ log' = Append(log, <<"Hint for ", stage.title, ": ", stage.hint>>)
      ]_vars

\* C2 witness: the strict variant refused a Next after a throw alone was
\* applied to the first stage.
C2_Witness ==
    /\ variant = "strict"
    /\ lastEvent = "goNext"
    /\ stageIdx = 0
    /\ KindsApplied(stage) = {"throw"}
    /\ LastOf(log) = <<"Hint for ", stage.title, ": ", stage.hint>>

----------------------------------------------------------------------------
----------------------------------------------------------------------------
\* C4: the stage index is always an index of STAGES, also after Next
\* requests on the last stage.
C4_StageIndexInRange == stageIdx \in 0..(NumStages - 1)

\* C4 witness: a Next request on the last stage of the lenient variant was
\* answered with the completion message, the index still on the last stage.
C4_Witness ==
    /\ variant = "lenient"
    /\ lastEvent = "next"
    /\ OnLastStage
    /\ LastOf(log) = DoneEntry

----------------------------------------------------------------------------
\* C5: under the strict policy the reveal flag is set only by a Next request
\* on the last stage made while every expected kind of that stage is applied
\* and recorded; it is never true below the last stage, and only Restart
\* clears it.
C5_RevealOnlyAfterLastStage ==
    /\ [](showBest => OnLastStage)
    /\ [][(~showBest /\ showBest') =>
             /\ lastEvent' = "goNext"
             /\ OnLastStage
             /\ stageIdx' = stageIdx
             /\ ExpectedApplied(stage)
             /\ scoreStage(stage).ok
         ]_vars
    /\ [][(showBest /\ ~showBest') => lastEvent' = "reset"]_vars

\* C5 witness: the reference solution is revealed.
C5_Witness == variant = "strict" /\ showBest

----------------------------------------------------------------------------
\* C6: in every step the stage index stays, or grows by exactly one through
\* a Next request made while the advancement condition holds on a stage
\* other than the last, or is set to 0 by Restart.
C6_IndexStepsByOne ==
    [][\/ stageIdx' = stageIdx
       \/ /\ stageIdx' = stageIdx + 1
          /\ NextRequested
          /\ AdvanceAllowed
          /\ ~OnLastStage
       \/ /\ stageIdx' = 0
          /\ RestartRequested
      ]_vars

\* C6 witness: the strict variant has stepped to the last stage.
C6_Witness ==
    /\ variant = "strict"
    /\ lastEvent = "goNext"
    /\ OnLastStage
    /\ ~showBest

----------------------------------------------------------------------------
\* C7: a Next request on the last stage made while its advancement condition
\* holds leaves the index on the last stage; the strict variant sets the
\* reveal flag and leaves the log alone, the lenient variant appends exactly
\* one completion message, on every such request.
C7_NextOnLastStage ==
    [][(NextRequested /\ OnLastStage /\ AdvanceAllowed) =>
          /\ stageIdx' = stageIdx
          /\ variant = "strict" => (showBest' /\ log' = log)
          /\ variant = "lenient" => log' = Append(log, DoneEntry)
      ]_vars

\* C7 witness: two Next requests on the last stage of the lenient variant
\* left two completion messages.
C7_Witness ==
    /\ variant = "lenient"
    /\ OnLastStage
    /\ Len(log) >= 2
    /\ log[Len(log)] = DoneEntry
    /\ log[Len(log) - 1] = DoneEntry

----------------------------------------------------------------------------
\* the drops logged for stage s after its last reset entry
DropsSinceReset(s) ==
    LET resets == {n \in 1..Len(log) : log[n] = <<"Reset ", s.title>>}
        from == IF resets = {} THEN 0
                ELSE CHOOSE n \in resets : \A m \in resets : n >= m
    IN  {n \in (from + 1)..Len(log) :
            log[n][1] = "Applied " /\ EntryOf(log[n], s)}

\* C8: under the lenient policy a Next request is granted (the index grows,
\* or on the last stage the completion message is logged) if and only if at
\* least one action was dropped on the active stage since its last reset,
\* whatever its kind; otherwise it is refused with the hint.
C8_LenientAdvanceIffAnyDrop ==
    /\ [](variant = "lenient" =>
             (AdvanceAllowed <=> DropsSinceReset(stage) # {}))
    /\ [][(variant = "lenient" /\ NextRequested) =>
             IF DropsSinceReset(stage) # {}
             THEN IF OnLastStage
                  THEN stageIdx' = stageIdx /\ log' = Append(log, DoneEntry)
                  ELSE stageIdx' = stageIdx + 1 /\ log' = log
             ELSE /\ stageIdx' = stageIdx
                  /\ log' = Append(log, <<"Hint for ", stage.title, ": ", stage.hint>>)
         ]_vars

\* C8 witness: a stage was edited and then reset, and the Next request that
\* followed was refused.
C8_Witness ==
    /\ variant = "lenient"
    /\ lastEvent = "next"
    /\ KindsApplied(stage) # {}
    /\ DropsSinceReset(stage) = {}
    /\ LastOf(log) = <<"Hint for ", stage.title, ": ", stage.hint>>

----------------------------------------------------------------------------
(* The transforms, read off the steps of SpecTransform: the entry a drop   *)
(* logs names the action and the line it was dropped on.                   *)

\* the step drops the action of this id on some line
Dropped(actionId) ==
    /\ lastEvent' = "applyActionAt"
    /\ Len(log') = Len(log) + 1
    /\ LastOf(log')[2] = actionId

\* the index, from 0, of the line the step's drop landed on
DropIdx == LastOf(log')[4] - 1

\* the line the step's drop landed on, as it was before the step
Target == lines[DropIdx + 1]

\* word occurs somewhere in s
Contains(s, word) == \E p \in 1..(Len(s) + 1) : OccursAt(word, s, p)

\* s with every & and every < written as its HTML entity, character by
\* character
RECURSIVE EscapedText(_)
EscapedText(s) ==
    IF s = <<>> THEN <<>>
    ELSE (IF Head(s) = "&" THEN <<"&","a","m","p",";">>
          ELSE IF Head(s) = "<" THEN <<"&","l","t",";">>
          ELSE <<Head(s)>>) \o EscapedText(Tail(s))

\* the lines before the target and the lines after it are kept, in order,
\* around a block of five
FiveForOne ==
    /\ Len(lines') = Len(lines) + 4
    /\ \A j \in 1..DropIdx : lines'[j] = lines[j]
    /\ \A j \in (DropIdx + 2)..Len(lines) : lines'[j + 4] = lines[j]

\* C9 (as claimed): the Catch transform replaces exactly the target line by
\* five lines, the lines before and after it unchanged and in order, and the
\* trimmed original text of the target appears as the third element of the
\* block.
C9_CatchOriginalIsThird ==
    [][Dropped("catch") =>
          /\ FiveForOne
          /\ Contains(lines'[DropIdx + 3], Trim(Target))
      ]_vars

\* C9 (amended): the Catch transform replaces exactly the target line by
\* five lines, the lines before and after it unchanged and in order, and the
\* second element of the block is the target's indentation, four spaces, and
\* the trimmed original text with & written &amp; and < written &lt;.
C9_CatchOriginalIsSecondEscaped ==
    [][Dropped("catch") =>
          /\ FiveForOne
          /\ lines'[DropIdx + 2] =
                 LeadingSpace(Target) \o FourSpaces \o EscapedText(Trim(Target))
      ]_vars

\* C9 witness: Catch was dropped on a line that has a < in it, and the
\* second line of the block carries &lt; in its place.
C9_Witness ==
    /\ lastEvent = "applyActionAt"
    /\ Len(log) = 1
    /\ log[1][2] = "catch"
    /\ Len(lines) >= log[1][4] + 4
    /\ Contains(lines[log[1][4] + 1], LtEntity)
    /\ ~Contains(lines[log[1][4] + 1], <<"<">>)
    /\ Contains(lines[log[1][4] + 2], <<"c","a","t","c","h">>)

----------------------------------------------------------------------------
\* the number of return-null occurrences in the lines of a sequence
RECURSIVE ReturnNullCount(_)
ReturnNullCount(ls) ==
    IF ls = <<>> THEN 0
    ELSE Cardinality(ReturnNullStarts(Head(ls))) + ReturnNullCount(Tail(ls))

\* C10: the Throw transform replaces exactly one line or inserts exactly one
\* line, never both.  On a line matching the return-null pattern the line
\* count is unchanged, only the target changes and the return-null
\* occurrences of the sequence drop by exactly one; on any other line the
\* line count grows by one, the new throw line sits right after the target
\* and every line there was is unchanged.
C10_ThrowReplacesOrInserts ==
    [][Dropped("throw") =>
          IF IsReturnNull(Target)
          THEN /\ Len(lines') = Len(lines)
               /\ \A j \in 1..Len(lines) :
                      (lines'[j] # lines[j]) <=> (j = DropIdx + 1)
               /\ ReturnNullCount(lines') = ReturnNullCount(lines) - 1
          ELSE /\ Len(lines') = Len(lines) + 1
               /\ \A j \in 1..(DropIdx + 1) : lines'[j] = lines[j]
               /\ \A j \in (DropIdx + 2)..Len(lines) : lines'[j + 1] = lines[j]
               /\ Contains(lines'[DropIdx + 2], <<"t","h","r","o","w"," ","n","e","w"," ">>)
               /\ ReturnNullCount(lines') = ReturnNullCount(lines)
      ]_vars

\* C10 witness: Throw was dropped on a line with two return-null
\* occurrences and then on a line with none; the first drop left the line
\* count as it was and one occurrence less, the second added a line.
C10_Witness ==
    /\ lastEvent = "applyActionAt"
    /\ Len(log) = 2
    /\ log[1][2] = "throw"
    /\ log[2][2] = "throw"
    /\ log[1][4] = 2
    /\ log[2][4] = 4
    /\ Len(lines) = Len(ProbeLines) + 1
    /\ Cardinality(ReturnNullStarts(lines[2])) = 1
    /\ lines[4] = Probe4
    /\ Contains(lines[5], <<"t","h","r","o","w"," ","n","e","w"," ">>)

----------------------------------------------------------------------------
\* the positions at which the word return starts in a line
ReturnAt(line) == {p \in 1..Len(line) : OccursAt(ReturnWord, line, p)}

\* the positions of the semicolons of a line from position p on
SemisFrom(line, p) == {q \in p..Len(line) : line[q] = ";"}

\* the line holds one statement "return x;": the word return once, blanks,
\* a text x that is not empty, and the only semicolon after it; nothing in
\* the line names Optional
PlainReturn(line) ==
    /\ Cardinality(ReturnAt(line)) = 1
    /\ ~Contains(line, <<"O","p","t","i","o","n","a","l",".">>)
    /\ LET p == CHOOSE i \in ReturnAt(line) : TRUE
           a == p + 6 + SpaceRun(line, p + 6)
       IN  /\ SpaceRun(line, p + 6) >= 1
           /\ Cardinality(SemisFrom(line, p)) = 1
           /\ SemisFrom(line, a + 1) # {}
           /\ \A i \in 1..Len(line) : line[i] \notin {"\n", "\r"}

\* what "return x;" is to become: the text before return, then
\* return Optional.of(x); and then the text after the semicolon
WithOptionalOf(line) ==
    LET p == CHOOSE i \in ReturnAt(line) : TRUE
        a == p + 6 + SpaceRun(line, p + 6)
        q == CHOOSE i \in SemisFrom(line, p) : TRUE
    IN  Slice(line, 1, p - 1)
        \o <<"r","e","t","u","r","n"," ","O","p","t","i","o","n","a","l",".","o","f","(">>
        \o Slice(line, a, q - 1) \o <<")",";">>
        \o Slice(line, q + 1, Len(line))

\* one line was inserted right after the target; the target and every other
\* line are as they were
OneInsertedAfterTarget ==
    /\ Len(lines') = Len(lines) + 1
    /\ \A j \in 1..(DropIdx + 1) : lines'[j] = lines[j]
    /\ \A j \in (DropIdx + 2)..Len(lines) : lines'[j + 1] = lines[j]

\* C11: the Optional-return transform dropped on a line "return x;" whose x
\* is not wrapped in an Optional rewrites that line to
\* "return Optional.of(x);", the line count and every other line unchanged;
\* dropped on a line without a "return <expr>;" shape it inserts exactly one
\* line right after the target and leaves the target as it was.
C11_OptionalRewritesOrInserts ==
    [][Dropped("opt") =>
          /\ PlainReturn(Target) =>
                 /\ Len(lines') = Len(lines)
                 /\ lines' = [lines EXCEPT ![DropIdx + 1] = WithOptionalOf(Target)]
          /\ ~IsReturnExpr(Target) => OneInsertedAfterTarget
      ]_vars

\* C11 witness: the transform was dropped on "return a & b < c;", which now
\* reads "return Optional.of(a & b < c);", and then on "return;", which
\* has no expression and got a line inserted after it.
C11_Witness ==
    /\ lastEvent = "applyActionAt"
    /\ Len(log) = 2
    /\ log[1][2] = "opt" /\ log[1][4] = 3
    /\ log[2][2] = "opt" /\ log[2][4] = 4
    /\ Len(lines) = Len(ProbeLines) + 1
    /\ lines[3] = <<"r","e","t","u","r","n"," ","O","p","t","i","o","n","a","l",".","o","f","(","a"," ","&"," ","b"," ","<"," ","c",")",";">>
    /\ lines[4] = Probe4
    /\ Contains(lines[5], <<"O","p","t","i","o","n","a","l",".","o","f","(">>)
    /\ lines[6] = Probe5

----------------------------------------------------------------------------
\* the applied count of the stage of key k, in this state and in the next
CountOf(k) == GetOr(appliedCounts, k, 0)
NextCountOf(k) == GetOr(appliedCounts', k, 0)

\* the log gained exactly one entry at its end
OneEntryAppended ==
    /\ Len(log') = Len(log) + 1
    /\ SubSeq(log', 1, Len(log)) = log

\* C12: resetStage sets the working lines of the active stage to its
\* template and its applied count to zero and appends exactly one log entry;
\* the stage index and the lines and count of every other stage stay as
\* they are; a second resetStage right after the first changes neither the
\* lines nor the counts.
C12_ResetStageRestoresActiveStage ==
    [][lastEvent' = "resetStage" =>
          /\ linesByStage'[stage.key] = stage.snippet
          /\ NextCountOf(stage.key) = 0
          /\ OneEntryAppended
          /\ stageIdx' = stageIdx
          /\ \A k \in StageKeys \ {stage.key} :
                 /\ linesByStage'[k] = linesByStage[k]
                 /\ NextCountOf(k) = CountOf(k)
          /\ lastEvent = "resetStage" =>
                 /\ linesByStage' = linesByStage
                 /\ \A k \in StageKeys : NextCountOf(k) = CountOf(k)
      ]_vars

\* C12 witness: on the second stage, the first stage still edited, a line
\* was edited and the stage was reset twice in a row.
C12_Witness ==
    /\ lastEvent = "resetStage"
    /\ stageIdx = 1
    /\ Len(log) >= 3
    /\ log[Len(log)] = <<"Reset ", stage.title>>
    /\ log[Len(log) - 1] = <<"Reset ", stage.title>>
    /\ log[Len(log) - 2][1] = "Applied "
    /\ lines = stage.snippet
    /\ CountOf(stage.key) = 0
    /\ linesByStage[StageAt(0).key] # StageAt(0).snippet
    /\ CountOf(StageAt(0).key) = 1

----------------------------------------------------------------------------
\* C13 (as claimed): a drop whose action kind is not one of throw, catch,
\* opt is rejected and changes nothing, so no log entry reports such a kind
\* as applied, no record of the strict variant holds one, and no count of
\* the lenient variant exceeds the drops of the three kinds logged for its
\* stage.  The code falsifies it: neither handler looks at the kind before
\* it records, counts and logs the drop.
C13_InvalidDropRejected ==
    /\ \A n \in 1..Len(log) :
           log[n][1] = "Applied " => KindOf(log[n]) \in ActionIds
    /\ \A k \in DOMAIN applied : \A t \in DOMAIN applied[k] :
           \E id \in ActionIds : Matches(applied[k][t], id)
    /\ \A n \in 1..NumStages :
           CountOf(STAGES[n].key) <=
               Cardinality({m \in DropsSinceReset(STAGES[n]) :
                               KindOf(log[m]) \in ActionIds})

----------------------------------------------------------------------------
\* the log entries of the scenario: Catch on line index 1 of the first
\* stage, then Throw on line index 6, the last line of the wrapped text
CatchOnSecondLine ==
    <<"Applied ", "catch", " to line ", 2, " in ", StageAt(0).title>>
ThrowOnSeventhLine ==
    <<"Applied ", "throw", " to line ", 7, " in ", StageAt(0).title>>

\* C14: from the initial state of the lenient variant, Catch dropped on
\* line index 1 of the 3-line first stage gives 7 lines of which line index
\* 1 reads "try {"; Throw dropped on the new last line then replaces
\* nothing and inserts a throw line after it, which makes 8 lines; a Next
\* request then moves the stage index to 1.
C14_CatchThrowNextScenario ==
    /\ []((variant = "lenient" /\ stageIdx = 0 /\ log = <<>>) =>
             Len(lines) = 3)
    /\ []((variant = "lenient" /\ stageIdx = 0 /\ log = <<CatchOnSecondLine>>) =>
             /\ Len(lines) = 7
             /\ Trim(lines[2]) = <<"t","r","y"," ","{">>
             /\ lines[7] = <<"}">>)
    /\ []((variant = "lenient" /\ stageIdx = 0
           /\ log = <<CatchOnSecondLine, ThrowOnSeventhLine>>) =>
             /\ Len(lines) = 8
             /\ lines[7] = <<"}">>
             /\ Contains(lines[8], <<"t","h","r","o","w"," ","n","e","w"," ">>)
             /\ \A j \in 1..7 : ~Contains(lines[j], <<"t","h","r","o","w"," ","n","e","w"," ">>))
    /\ [][(variant = "lenient" /\ stageIdx = 0
           /\ log = <<CatchOnSecondLine, ThrowOnSeventhLine>>
           /\ lastEvent' = "next") => stageIdx' = 1]_vars

\* C14 witness: the scenario was played to its end.
C14_Witness ==
    /\ variant = "lenient"
    /\ lastEvent = "next"
    /\ stageIdx = 1
    /\ log = <<CatchOnSecondLine, ThrowOnSeventhLine>>
    /\ Len(linesByStage[StageAt(0).key]) = 8

----------------------------------------------------------------------------
\* the number of actions the strict variant holds recorded for the stage of
\* key k, in this state and in the next
RecordedOf(k) == Cardinality(DOMAIN GetOr(applied, k, EmptyObject))
NextRecordedOf(k) == Cardinality(DOMAIN GetOr(applied', k, EmptyObject))

\* C15 (as claimed): every drop adds exactly one entry to the record of the
\* active stage (the count grows by one in the lenient variant, the map of
\* the strict variant holds one more action, also when two drops read the
\* same clock value) and appends exactly one "Applied ..." entry to the log.
\* The code falsifies it: a drop of the strict variant that reads the clock
\* value of an earlier drop on the stage takes that drop's place in the map.
C15_DropAddsOneRecord ==
    [][lastEvent' \in {"applyAction", "applyActionAt"} =>
          /\ OneEntryAppended
          /\ LastOf(log')[1] = "Applied "
          /\ variant = "lenient" => NextCountOf(stage.key) = CountOf(stage.key) + 1
          /\ variant = "strict" => NextRecordedOf(stage.key) = RecordedOf(stage.key) + 1
      ]_vars

----------------------------------------------------------------------------
\* C16: a hint request of the strict variant appends exactly one entry that
\* holds the hint of the active stage to the log and leaves the stage index,
\* the applied action records and the reveal flag as they are, so it never
\* changes whether advancement is permitted; the request can be made in
\* every state.
C16_HintOnlyLogs ==
    /\ [](variant = "strict" => ENABLED needHint)
    /\ [][lastEvent' = "needHint" =>
             /\ OneEntryAppended
             /\ \E i \in 1..Len(LastOf(log')) : LastOf(log')[i] = stage.hint
             /\ stageIdx' = stageIdx
             /\ applied' = applied
             /\ showBest' = showBest
             /\ (scoreStage(stage).ok)' = scoreStage(stage).ok
         ]_vars

\* C16 witness: two hint requests in a row on a stage that has a throw
\* applied and cannot be passed yet.
C16_Witness ==
    /\ variant = "strict"
    /\ lastEvent = "needHint"
    /\ Len(log) = 3
    /\ KindsApplied(stage) = {"throw"}
    /\ log[2] = <<"Hint: ", stage.hint>>
    /\ log[3] = <<"Hint: ", stage.hint>>
    /\ ~scoreStage(stage).ok

----------------------------------------------------------------------------
\* the log of this state is the beginning of the log of the next
LogKept ==
    /\ Len(log') >= Len(log)
    /\ SubSeq(log', 1, Len(log)) = log

\* C17: the log is append-only.  In every step but a Restart the log there
\* was is a prefix of the log there is, so entries are never removed,
\* reordered or rewritten and new ones go at the end; Restart empties it;
\* resetStage does not, it appends its entry.
C17_LogAppendOnly ==
    /\ [][RestartRequested \/ LogKept]_vars
    /\ [][RestartRequested => log' = <<>>]_vars
    /\ [][lastEvent' = "resetStage" => (LogKept /\ Len(log') = Len(log) + 1)]_vars

\* C17 witness: a stage of the lenient variant was reset after a drop, and
\* the entry of the drop is still in the log, before the entry of the reset.
C17_Witness ==
    /\ variant = "lenient"
    /\ lastEvent = "resetStage"
    /\ Len(log) = 2
    /\ log[1][1] = "Applied "
    /\ log[2] = <<"Reset ", stage.title>>

----------------------------------------------------------------------------
\* what is held for the stage of key k (working lines, count, record) is
\* the same in the next state
StageDataKept(k) ==
    /\ GetOr(linesByStage', k, <<>>) = GetOr(linesByStage, k, <<>>)
    /\ NextCountOf(k) = CountOf(k)
    /\ GetOr(applied', k, EmptyObject) = GetOr(applied, k, EmptyObject)

\* C18: a drop changes the working lines and the record of the active stage
\* only; what is held for every other stage stays, and a granted Next takes
\* nothing away, so the stages left behind keep their edits and records
\* until Restart.
C18_DropTouchesActiveStageOnly ==
    /\ [][lastEvent' \in {"applyAction", "applyActionAt"} =>
             /\ stageIdx' = stageIdx
             /\ \A k \in StageKeys \ {stage.key} : StageDataKept(k)
         ]_vars
    /\ [][NextRequested => \A k \in StageKeys : StageDataKept(k)]_vars
    /\ [][RestartRequested \/ \A k \in StageKeys \ {stage.key} : StageDataKept(k)]_vars

\* C18 witness: the first stage was edited and left, the second stage was
\* edited, and the first stage still has its edited lines and its count.
C18_Witness ==
    /\ variant = "lenient"
    /\ lastEvent = "applyActionAt"
    /\ stageIdx = 1
    /\ lines # stage.snippet
    /\ linesByStage[StageAt(0).key] # StageAt(0).snippet
    /\ CountOf(StageAt(0).key) = 1
    /\ CountOf(stage.key) = 1

----------------------------------------------------------------------------
\* C19: the snippet arrays of STAGES are never modified.  Every working
\* array is a copy, never a snippet array itself, so the transforms, which
\* edit in place, cannot reach a snippet, and what a reset restores is the
\* text the source gives, also after a reset, a drop and another reset.
C19_SnippetsNeverModified ==
    /\ snippets = TemplateLines
    /\ sharing = {}
    /\ lastEvent \in {"resetStage", "resetAll"} =>
           linesByStage[stage.key] = stage.snippet

\* C19 witness: a stage was reset, edited and reset again, and its working
\* lines are the snippet of the source.
C19_Witness ==
    /\ variant = "lenient"
    /\ lastEvent = "resetStage"
    /\ Len(log) = 3
    /\ log[1] = <<"Reset ", stage.title>>
    /\ log[2][1] = "Applied " /\ log[2][2] \in ActionIds
    /\ log[3] = <<"Reset ", stage.title>>
    /\ lines = stage.snippet
    /\ snippets[stage.key] = stage.snippet

----------------------------------------------------------------------------
\* the line holds an Optional constructor, Optional.empty() or Optional.of(
HoldsOptional(line) ==
    \/ Contains(line, <<"O","p","t","i","o","n","a","l",".","e","m","p","t","y","(",")">>)
    \/ Contains(line, <<"O","p","t","i","o","n","a","l",".","o","f","(">>)

\* the step drops the action that the step before dropped, on the same line
\* index
DroppedAgain(actionId) ==
    /\ Dropped(actionId)
    /\ lastEvent = "applyActionAt"
    /\ LastOf(log)[2] = actionId
    /\ LastOf(log)[4] = LastOf(log')[4]

\* C20: the Optional-return transform never changes a target that already
\* holds an Optional constructor; it inserts exactly one line after it
\* instead.  Dropped a second time on the same line index it only inserts,
\* and no line ever reads Optional.of(Optional.of(.
C20_OptionalNeverNested ==
    /\ [][(Dropped("opt") /\ HoldsOptional(Target)) => OneInsertedAfterTarget]_vars
    /\ [][DroppedAgain("opt") => OneInsertedAfterTarget]_vars
    /\ [](\A j \in 1..Len(lines) :
             ~Contains(lines[j], <<"O","p","t","i","o","n","a","l",".","o","f","(",
                                   "O","p","t","i","o","n","a","l",".","o","f","(">>))

\* C20 witness: the transform was dropped twice on "return a & b < c;";
\* the first drop wrapped the expression, the second left the line alone
\* and inserted the sample line after it.
C20_Witness ==
    /\ lastEvent = "applyActionAt"
    /\ Len(log) = 2
    /\ log[1][2] = "opt" /\ log[1][4] = 3
    /\ log[2][2] = "opt" /\ log[2][4] = 3
    /\ Len(lines) = Len(ProbeLines) + 1
    /\ lines[3] = WithOptionalOf(Probe3)
    /\ lines[4] = FourSpaces \o OptionalSampleText
    /\ lines[5] = Probe4

----------------------------------------------------------------------------
\* the stage s was passed as its variant asks: every expected kind is in its
\* record (strict), its count is at least 1 (lenient)
Passed(s) ==
    IF variant = "strict"
    THEN /\ scoreStage(s).ok
         /\ ExpectedApplied(s)
    ELSE CountOf(s.key) >= 1

\* nothing is held for the stage s: no recorded action, no count, and in
\* the lenient variant the working lines of its snippet
Untouched(s) ==
    /\ RecordedOf(s.key) = 0
    /\ CountOf(s.key) = 0
    /\ variant = "lenient" => linesByStage[s.key] = s.snippet

\* C21: in every reachable state every stage below the active one satisfies
\* its advancement condition, and every stage above it has an empty record
\* and, in the lenient variant, the working lines of its template.
C21_StagesBelowPassedAboveUntouched ==
    \A n \in 1..NumStages :
        /\ n - 1 < stageIdx => Passed(STAGES[n])
        /\ n - 1 > stageIdx => Untouched(STAGES[n])

\* C21 witness: the third stage of the lenient variant was edited and reset,
\* so that it has no count itself, with two counted stages below it and two
\* untouched stages above.
C21_Witness ==
    /\ variant = "lenient"
    /\ stageIdx = 2
    /\ lastEvent = "resetStage"
    /\ CountOf(stage.key) = 0
    /\ KindsApplied(stage) # {}
    /\ Passed(StageAt(0)) /\ Passed(StageAt(1))
    /\ Untouched(StageAt(3)) /\ Untouched(StageAt(4))

----------------------------------------------------------------------------
\* C22: in every reachable state of the lenient variant a stage whose
\* applied count is zero or absent has the working lines of its template;
\* the lines differ from the template only if an action was counted for the
\* stage since its last reset.
C22_UncountedStageHasTemplate ==
    variant = "lenient" =>
        \A n \in 1..NumStages :
            /\ STAGES[n].key \in DOMAIN linesByStage
            /\ CountOf(STAGES[n].key) = 0 =>
                   linesByStage[STAGES[n].key] = STAGES[n].snippet
            /\ linesByStage[STAGES[n].key] # STAGES[n].snippet =>
                   DropsSinceReset(STAGES[n]) # {}

\* C22 witness: the second stage was edited by a Catch and reset, so that
\* its count is back to zero and its lines are the template again, while
\* the first stage, counted once, still differs from its template.
C22_Witness ==
    /\ variant = "lenient"
    /\ stageIdx = 1
    /\ lastEvent = "resetStage"
    /\ Len(StageLog) = 2
    /\ StageLog[1][2] = "catch"
    /\ appliedCounts[stage.key] = 0
    /\ lines = stage.snippet
    /\ CountOf(StageAt(0).key) = 1
    /\ Len(linesByStage[StageAt(0).key]) > Len(StageAt(0).snippet)

====
